---- MODULE Spec2Model ----
(***************************************************************************)
(* Trigger gate (core/smart_trigger.py), its mirror (services/             *)
(* redis_manager.py) and the coordinator that drives them                  *)
(* (core/event_system.py) of crypto_trader.                                *)
(*                                                                         *)
(* Time is time.time() in whole seconds.  Prices are integers in ticks of  *)
(* 0.1 (1000 stands for 100.0), so that the 0.2% threshold is the exact    *)
(* comparison |p - P| * 1000 >= 2 * P.                                     *)
(*                                                                         *)
(* The websocket callbacks and the decision tasks all run on the event     *)
(* loop of the ThreadedWebsocketManager: a callback is one atomic step, a  *)
(* task created by asyncio.create_task starts in a later step (FIFO), and  *)
(* a started task is suspended in the agent call until it completes.       *)
(*                                                                         *)
(* The kline buffer and the indicators of the data engine                  *)
(* (core/data_engine.py) are specified by DataSpec, in which the gate is   *)
(* idle; Spec and FairSpec specify the gate, with the data engine idle.    *)
(* EngineSpec runs the stream callbacks of the data engine together with   *)
(* the gate they call into, over short runs.  CalcSpec calls the indicator *)
(* functions on their own, and SnapSpec is a caller of get_klines_data     *)
(* with the buffer seen as a list of references to dict objects.           *)
(* SystemSpec follows the process from start to stop and through a         *)
(* restart, with the coordinator's status dict and the main loop of run(); *)
(* FaultyFeedSpec is DataSpec with malformed kline messages, and           *)
(* CounterSpec takes a call of increment_ai_call_count command by command. *)
(***************************************************************************)
EXTENDS Integers, Sequences, FiniteSets

\* ---------------------------------------------------------------- bounds
MaxTime == 190          \* the clock stops advancing here
MaxTasks == 2           \* decision tasks that exist at one time
MaxEvents == 3          \* stream messages the data engine handles
MaxEngineEvents == 2    \* stream messages in a run of engine and gate together
MaxCallerOps == 3       \* changes a caller makes to the list get_klines_data gave it
MaxTail == 3            \* bars that follow the flat bars of an indicator input
MaxRestarts == 1        \* times the process is started again
MaxCounterOps == 8      \* calls of increment_ai_call_count on their own

\* ------------------------------------------------------- program constants
MIN_CALL_INTERVAL == 30
FALLBACK_INTERVAL == 180
THRESHOLD_NUM == 2      \* PRICE_VOLATILITY_THRESHOLD = 0.002 = 2 / 1000
THRESHOLD_DEN == 1000
AI_CALL_LIMIT == 120     \* the count _check_system_status compares with
BUFFER_CAPACITY == 100   \* klines_cache keeps the last 100 messages
PRELOAD_LIMIT == 100     \* limit=100 of the preload's REST call
MAX_AI_CALLS_PER_HOUR == 1500   \* Config.MAX_AI_CALLS_PER_HOUR: the gate never reads it
None == 0 - 1           \* Python None of an Optional[float]
NotNumeric == 0 - 2     \* a price field of a message that float() rejects

Symbols == {"BTCUSDT", "ETHUSDT"}
Prices == {0, 1000, 1002}
\* close prices the streams deliver: 1000 -> 1002 is a move of exactly 0.2%,
\* 1002 -> 1000 one of just under 0.2%
KlinePrices(symbol) == IF symbol = "BTCUSDT" THEN Prices ELSE {1000}
StartTime == 10          \* time.time() when the program starts; a previous run recorded its call at 0
TickSteps == {90}
WsValues == {"", "connected", "disconnected"}   \* "" : the status hash is absent
\* What the store does during one handler, <<d, g>>: from the handler's d-th
\* mirror call on it does not answer the ping, and the command of its g-th call
\* raises RedisError (NoDown, NoGlitch: never).
NoDown == 8
NoGlitch == 0
\* The store is reachable throughout a run or was down when the program
\* started (connected is then false for good); while it is reachable, the
\* bookkeeping write of a callback may raise.
KlineFaults == { <<NoDown, NoGlitch>>, <<NoDown, 2>> }
\* in the runs of engine and gate together: the status read of the gate's
\* health check (call 6 of the callback) may raise
EngineFaults == { <<NoDown, NoGlitch>>, <<NoDown, 6>> }
StartFaults == { <<NoDown, NoGlitch>> }
TaskFaults == { <<NoDown, NoGlitch>> }

VARIABLES
    now,                \* time.time()
    connected,          \* RedisManager.connected
    r_last_ai_call,     \* store: last AI call time
    r_ai_call_count,    \* store: hourly counter (0: key absent)
    r_price_alert,      \* store: last_triggered_price per symbol
    r_ws_status,        \* store: websocket_status of the system status hash
    last_ai_call_time,  \* SmartTrigger.last_ai_call_time
    price_history,      \* SmartTrigger.price_history: the price of the latest entry per symbol
    websocket_status,   \* system_status["websocket_status"]
    mainPc,             \* position of the main thread in start()
    readyQ,             \* created tasks that have not started, in creation order
    running,            \* started tasks suspended in the agent call, per symbol
    lastTriggerPrice,   \* history: price of each symbol's latest authorized trigger
    lastEval,           \* history: the gate evaluation made by the step just taken
    klines_cache,       \* DataEngine.klines_cache: the buffered kline messages per symbol
    r_indicators,       \* store: the indicator hash per symbol
    streamT,            \* exchange: close time of the 1m bar being built, per symbol
    arrived,            \* history: preloaded bars and handled kline messages, in order
    nEvents,            \* history: stream messages handled so far
    last_prices,        \* DataEngine.last_prices: the latest price per symbol
    r_market_data,      \* store: price of the market data hash per symbol
    n_callbacks,        \* history: invocations of on_kline_callback so far
    ws_errors,          \* history: error messages the stream callbacks have received
    stream_closed,      \* exchange: a stream's connection is closed and not yet reopened
    kline_objs,         \* the kline dict objects, by identity
    cache_refs,         \* klines_cache per symbol as a list of object identities
    returned,           \* the list get_klines_data returned to its caller
    nCallerOps,         \* history: changes the caller has made to what it was handed
    calc_klines,        \* TechnicalIndicators: the klines handed to the functions
    calc_period,        \* TechnicalIndicators: the period handed to the functions
    calc_result,        \* TechnicalIndicators: what the functions returned
    restarts,           \* history: how often the process has been started again
    start_time,         \* system_status["start_time"] as set by start()
    ai_decisions_made,  \* system_status["ai_decisions_made"]
    ai_agent_status,    \* system_status["ai_agent_status"]
    r_count_expires,    \* store: the hourly counter key carries an expiry
    incPc,              \* position of a call of increment_ai_call_count
    incExists,          \* increment_ai_call_count: its local exists
    nCounterOps         \* history: calls of increment_ai_call_count so far

vars == <<now, connected, r_last_ai_call, r_ai_call_count, r_price_alert,
          r_ws_status, last_ai_call_time, price_history, websocket_status,
          mainPc, readyQ, running, lastTriggerPrice, lastEval,
          klines_cache, r_indicators, streamT, arrived, nEvents,
          last_prices, r_market_data, n_callbacks, ws_errors, stream_closed,
          kline_objs, cache_refs, returned, nCallerOps,
          calc_klines, calc_period, calc_result,
          restarts, start_time, ai_decisions_made, ai_agent_status,
          r_count_expires, incPc, incExists, nCounterOps>>

\* the state of the data engine, and the rest
dataVars == <<klines_cache, r_indicators, streamT, arrived, nEvents,
              last_prices, r_market_data, n_callbacks, ws_errors, stream_closed>>

\* the object view of a buffer and of the list a caller was handed
snapVars == <<kline_objs, cache_refs, returned, nCallerOps>>

\* the arguments and the results of the indicator functions called on their own
calcVars == <<calc_klines, calc_period, calc_result>>

\* the coordinator's status dict and the process it lives in
sysVars == <<restarts, start_time, ai_decisions_made, ai_agent_status>>

\* the hourly counter key of the store and a call that increments it
counterVars == <<r_count_expires, incPc, incExists, nCounterOps>>

gateVars == <<now, r_last_ai_call, r_ai_call_count, r_price_alert,
              r_ws_status, last_ai_call_time, price_history, websocket_status,
              mainPc, readyQ, running, lastTriggerPrice, lastEval>>

Abs(x) == IF x < 0 THEN 0 - x ELSE x

\* the mirror holds no indicator hash for a symbol
NoIndicators == [absent |-> TRUE]

\* get_klines_data has not been called
NotReturned == [held |-> FALSE, refs |-> <<>>, symbol |-> "", limit |-> 0]

\* the indicator functions have not been called
NoResult == [called |-> FALSE]

\* no gate evaluation in the step just taken
NoEval == [sym |-> "", price |-> None, P |-> None, trig |-> None, checks |-> <<>>,
           result |-> FALSE, redisOk |-> FALSE, wsRead |-> FALSE, created |-> 0,
           returned |-> FALSE]

\* ------------------------------------------------------------ RedisManager
\* A mirror call first pings (is_connected) and then issues its command.  The
\* calls of one handler are numbered in program order.  From call d on the
\* store does not answer the ping, which clears the connected flag for good
\* (nothing calls reconnect()); the command of call g raises RedisError, which
\* every method catches.
is_connected(conn, d, k) == conn /\ k < d

\* the call went through: connected, and its command did not raise
Ok(conn, d, g, k) == is_connected(conn, d, k) /\ g # k

\* the price written to the hash of every symbol
update_price_alert_every_symbol(alert, symbol, price, ok) ==
    IF ok THEN [s \in Symbols |-> price] ELSE alert

\* hset of last_triggered_price := price; a failed call writes nothing
update_price_alert(alert, symbol, price, ok) ==
    IF ok THEN [alert EXCEPT ![symbol] = price] ELSE alert

\* last_triggered_price of the symbol's hash, None when there is no answer
get_price_alert(alert, symbol, ok) == IF ok THEN alert[symbol] ELSE None

\* websocket_status of the status hash, "" when there is no answer
get_system_status(ws, ok) == IF ok THEN ws ELSE ""

get_ai_call_count(count, ok) == IF ok THEN count ELSE 0

get_last_ai_call_time(t, ok) == IF ok THEN t ELSE None

\* ------------------------------------------------------------ SmartTrigger
\* the cooldown compared with 0 instead of MIN_CALL_INTERVAL
check_min_interval_no_cooldown(last, t) ==
    IF last = None THEN TRUE ELSE t - last >= 0

check_min_interval(last, t) ==
    IF last = None THEN TRUE ELSE t - last >= MIN_CALL_INTERVAL

\* the fallback with > for >=
check_fallback_interval_strict(last, t) ==
    IF last = None THEN TRUE ELSE t - last > FALLBACK_INTERVAL

\* no fallback without a recorded invocation
check_fallback_interval_needs_record(last, t) ==
    IF last = None THEN FALSE ELSE t - last >= FALLBACK_INTERVAL

check_fallback_interval(last, t) ==
    IF last = None THEN TRUE ELSE t - last >= FALLBACK_INTERVAL

\* the mirror's value first, the in-memory history when the mirror has none
\* (hist: the price of the symbol's latest history entry, None without one)
get_last_trigger_price(alertValue, hist) ==
    IF alertValue # None THEN alertValue
    ELSE IF hist # None THEN hist
    ELSE None

\* the threshold with > for >=
price_change_reached_strict(price, P) ==
    Abs(price - P) * THRESHOLD_DEN > THRESHOLD_NUM * P

\* abs(current_price - last_price) / last_price >= self.price_threshold
price_change_reached(price, P) ==
    Abs(price - P) * THRESHOLD_DEN >= THRESHOLD_NUM * P

\* no trigger without a last trigger price
check_price_volatility_cold_refused(price, P) ==
    IF P = None \/ P = 0 THEN FALSE
    ELSE price_change_reached(price, P)

check_price_volatility(price, P) ==
    IF P = None THEN TRUE
    ELSE IF P = 0 THEN FALSE
    ELSE price_change_reached(price, P)

\* append (now, price): the new tail
update_price_history(hist, price) == price

\* the transport status left out of the health check
check_system_status_no_ws(connOk, wsSeen, count) ==
    IF ~connOk THEN TRUE ELSE FALSE

\* connOk: is_connected() answered True; wsSeen: what get_system_status gave
check_system_status(connOk, wsSeen, count) ==
    IF ~connOk THEN TRUE
    ELSE IF wsSeen # "" /\ wsSeen # "connected" THEN TRUE
    ELSE IF count > AI_CALL_LIMIT THEN FALSE
    ELSE FALSE

\* The gate: its answer, the checks it ran in order, the last trigger price it
\* read, the price history and mirror alerts it leaves behind, and the number
\* of the last mirror call it made.
\* alert, hist: the mirror's alerts and the in-memory history of all symbols.
should_trigger_decision(symbol, price, conn, d, g, alert, hist, last, t, ws, count) ==
    IF ~check_min_interval(last, t)
    THEN [result |-> FALSE, checks |-> <<"min_interval">>, P |-> None,
          hist |-> hist, alert |-> alert, calls |-> 2]
    ELSE
      LET P      == get_last_trigger_price(
                        get_price_alert(alert, symbol, Ok(conn, d, g, 3)), hist[symbol])
          vol    == check_price_volatility(price, P)
          hist2  == IF vol
                    THEN [hist EXCEPT ![symbol] = update_price_history(hist[symbol], price)]
                    ELSE hist
          alert2 == IF P # None /\ P # 0
                    THEN update_price_alert(alert, symbol, price, Ok(conn, d, g, 4))
                    ELSE alert
          n4     == IF P # None /\ P # 0 THEN 4 ELSE 3
          wsSeen == get_system_status(ws, Ok(conn, d, g, 6))
      IN  IF vol
          THEN [result |-> TRUE, checks |-> <<"min_interval", "volatility">>,
                P |-> P, hist |-> hist2, alert |-> alert2, calls |-> n4]
          ELSE IF check_fallback_interval(last, t)
          THEN [result |-> TRUE, checks |-> <<"min_interval", "volatility", "fallback">>,
                P |-> P, hist |-> hist2, alert |-> alert2, calls |-> n4]
          ELSE [result |-> check_system_status(is_connected(conn, d, 5), wsSeen,
                                               get_ai_call_count(count, Ok(conn, d, g, 7))),
                checks |-> <<"min_interval", "volatility", "fallback", "status">>,
                P |-> P, hist |-> hist2, alert |-> alert2,
                calls |-> IF ~is_connected(conn, d, 5) THEN 5
                          ELSE IF wsSeen # "" /\ wsSeen # "connected" THEN 6 ELSE 7]

\* ------------------------------------------------------------------- Init
\* What the mirror holds when the program starts: nothing, or what a run has
\* left whose latest call, a BTCUSDT trigger at 1000, was recorded at time 0
\* and brought the hourly counter to the configured ceiling.
PersistedStores ==
    { [last |-> None, count |-> 0, alert |-> [s \in Symbols |-> None], ws |-> ""],
      [last |-> 0, count |-> MAX_AI_CALLS_PER_HOUR,
       alert |-> [s \in Symbols |-> IF s = "BTCUSDT" THEN 1000 ELSE None],
       ws |-> "disconnected"] }

\* the data engine left aside: no bar buffered, no message handled
FeedIdle ==
    /\ last_prices = [s \in Symbols |-> None]
    /\ r_market_data = [s \in Symbols |-> None]
    /\ n_callbacks = 0
    /\ ws_errors = 0
    /\ stream_closed = FALSE
    /\ nEvents = 0

DataIdle ==
    /\ klines_cache = [s \in Symbols |-> <<>>]
    /\ r_indicators = [s \in Symbols |-> NoIndicators]
    /\ streamT = [s \in Symbols |-> 1]
    /\ arrived = [s \in Symbols |-> <<>>]
    /\ FeedIdle

\* no caller of get_klines_data
SnapIdle ==
    /\ kline_objs = <<>>
    /\ cache_refs = [s \in Symbols |-> <<>>]
    /\ returned = NotReturned
    /\ nCallerOps = 0

\* no call of the indicator functions on their own
CalcIdle ==
    /\ calc_klines = <<>>
    /\ calc_period = 0
    /\ calc_result = NoResult

\* EventDrivenTradingSystem.__init__: the status dict of a first start
SysIdle ==
    /\ restarts = 0
    /\ start_time = None
    /\ ai_decisions_made = 0
    /\ ai_agent_status = "idle"

\* no call of increment_ai_call_count under way; the counter key, where the
\* store holds one, carries the expiry its first increment gave it
CounterIdle ==
    /\ r_count_expires = (r_ai_call_count > 0)
    /\ incPc = "idle"
    /\ incExists = FALSE
    /\ nCounterOps = 0

\* redis_manager, smart_trigger and the EventDrivenTradingSystem are constructed
GateInit ==
    /\ now = StartTime
    /\ connected \in BOOLEAN
    /\ \E st \in PersistedStores :
          /\ r_last_ai_call = st.last
          /\ r_ai_call_count = st.count
          /\ r_price_alert = st.alert
          /\ r_ws_status = st.ws
          /\ lastTriggerPrice = st.alert
    /\ last_ai_call_time = get_last_ai_call_time(r_last_ai_call, connected)
    /\ price_history = [s \in Symbols |-> None]
    /\ websocket_status = "disconnected"
    /\ mainPc = "constructed"
    /\ readyQ = <<>>
    /\ running = [s \in Symbols |-> 0]
    /\ lastEval = NoEval
    /\ SysIdle
    /\ CounterIdle

Init ==
    /\ GateInit
    /\ DataIdle
    /\ CalcIdle
    /\ SnapIdle

\* ---------------------------------------------------------------- actions
Tick(step) ==
    /\ UNCHANGED <<dataVars, calcVars, snapVars, sysVars, counterVars>>
    /\ now + step <= MaxTime
    /\ now' = now + step
    /\ lastEval' = NoEval
    /\ UNCHANGED <<connected, r_last_ai_call, r_ai_call_count, r_price_alert,
                   r_ws_status, last_ai_call_time, price_history, websocket_status,
                   mainPc, readyQ, running, lastTriggerPrice>>

\* _update_system_status: is_connected() for the redis_status field (call 1),
\* then update_system_status (call 2) writes the status hash
update_system_status(ws, d, g) ==
    /\ r_ws_status' = IF Ok(connected, d, g, 2) THEN ws ELSE r_ws_status
    /\ connected' = is_connected(connected, d, 2)

\* start() up to data_engine.start(): initialize() mirrors the status, and the
\* streams are subscribed, after which callbacks arrive
StartEngine(d, g) ==
    /\ UNCHANGED <<dataVars, calcVars, snapVars, sysVars, counterVars>>
    /\ mainPc = "constructed"
    /\ mainPc' = "starting"
    /\ update_system_status(websocket_status, d, g)
    /\ lastEval' = NoEval
    /\ UNCHANGED <<now, r_last_ai_call, r_ai_call_count, r_price_alert,
                   last_ai_call_time, price_history, websocket_status,
                   readyQ, running, lastTriggerPrice>>

\* start(): the rest, websocket_status = "connected" and its mirroring
start_running(d, g) ==
    /\ mainPc = "starting"
    /\ mainPc' = "running"
    /\ websocket_status' = "connected"
    /\ update_system_status("connected", d, g)
    /\ lastEval' = NoEval
    /\ UNCHANGED <<now, r_last_ai_call, r_ai_call_count, r_price_alert,
                   last_ai_call_time, price_history, readyQ, running,
                   lastTriggerPrice>>

\* start() on its own: the status dict left aside
StartRunning(d, g) ==
    /\ UNCHANGED <<dataVars, calcVars, snapVars, sysVars, counterVars>>
    /\ start_running(d, g)

RECURSIVE Total(_, _)
Total(f, S) == IF S = {} THEN 0
               ELSE LET x == CHOOSE y \in S : TRUE IN f[x] + Total(f, S \ {x})

\* decision tasks that exist: created and not started, or started and not done
InFlight == Len(readyQ) + Total(running, Symbols)

\* the handler waits for the decisions it has created: no callback runs
\* while a decision task exists
OnKlineUpdate_awaiting(symbol, price, d, g) ==
    /\ UNCHANGED <<dataVars, calcVars, snapVars, sysVars, counterVars>>
    /\ mainPc \in {"starting", "running"}
    /\ InFlight = 0
    /\ IF price = 0
       THEN /\ lastEval' = NoEval
            /\ UNCHANGED <<now, connected, r_last_ai_call, r_ai_call_count,
                           r_price_alert, r_ws_status, last_ai_call_time,
                           price_history, websocket_status, mainPc, readyQ,
                           running, lastTriggerPrice>>
       ELSE LET alert1 == update_price_alert(r_price_alert, symbol, price,
                                             Ok(connected, d, g, 2))
                v == should_trigger_decision(symbol, price, connected, d, g, alert1,
                                             price_history, last_ai_call_time, now,
                                             r_ws_status, r_ai_call_count)
            IN  /\ connected' = is_connected(connected, d, v.calls)
                /\ r_price_alert' = v.alert
                /\ price_history' = v.hist
                /\ readyQ' = IF v.result THEN Append(readyQ, symbol) ELSE readyQ
                /\ lastTriggerPrice' = IF v.result
                                       THEN [lastTriggerPrice EXCEPT ![symbol] = price]
                                       ELSE lastTriggerPrice
                /\ lastEval' = [sym |-> symbol, price |-> price, P |-> v.P,
                                trig |-> lastTriggerPrice[symbol],
                                checks |-> v.checks, result |-> v.result,
                                redisOk |-> is_connected(connected, d, 5),
                                wsRead |-> Ok(connected, d, g, 6),
                                created |-> Len(readyQ') - Len(readyQ),
                                returned |-> FALSE]
                /\ UNCHANGED <<now, r_last_ai_call, r_ai_call_count, r_ws_status,
                               last_ai_call_time, websocket_status, mainPc, running>>

\* _on_kline_update(symbol, {'price': price}): the volatility bookkeeping
\* (update_volatility, calls 1 and 2), the gate (calls 3..7) and
\* asyncio.create_task
on_kline_update(symbol, price, d, g) ==
    /\ mainPc \in {"starting", "running"}
    /\ IF price = 0
       THEN /\ lastEval' = NoEval
            /\ UNCHANGED <<now, connected, r_last_ai_call, r_ai_call_count,
                           r_price_alert, r_ws_status, last_ai_call_time,
                           price_history, websocket_status, mainPc, readyQ,
                           running, lastTriggerPrice>>
       ELSE LET alert1 == update_price_alert(r_price_alert, symbol, price,
                                             Ok(connected, d, g, 2))
                v == should_trigger_decision(symbol, price, connected, d, g, alert1,
                                             price_history, last_ai_call_time, now,
                                             r_ws_status, r_ai_call_count)
            IN  /\ v.result => InFlight < MaxTasks
                /\ connected' = is_connected(connected, d, v.calls)
                /\ r_price_alert' = v.alert
                /\ price_history' = v.hist
                /\ readyQ' = IF v.result THEN Append(readyQ, symbol) ELSE readyQ
                /\ lastTriggerPrice' = IF v.result
                                       THEN [lastTriggerPrice EXCEPT ![symbol] = price]
                                       ELSE lastTriggerPrice
                /\ lastEval' = [sym |-> symbol, price |-> price, P |-> v.P,
                                trig |-> lastTriggerPrice[symbol],
                                checks |-> v.checks, result |-> v.result,
                                redisOk |-> is_connected(connected, d, 5),
                                wsRead |-> Ok(connected, d, g, 6),
                                created |-> Len(readyQ') - Len(readyQ),
                                returned |-> FALSE]
                /\ UNCHANGED <<now, r_last_ai_call, r_ai_call_count, r_ws_status,
                               last_ai_call_time, websocket_status, mainPc, running>>

\* a price callback on its own: the data engine's state left aside
OnKlineUpdate(symbol, price, d, g) ==
    /\ UNCHANGED <<dataVars, calcVars, snapVars, sysVars, counterVars>>
    /\ on_kline_update(symbol, price, d, g)

\* update_last_ai_call: the time in memory, then the mirror's time (call 1)
\* and the mirror's counter (call 2); increment_ai_call_count gives the key
\* it creates its expiry
update_last_ai_call(d, g) ==
    /\ last_ai_call_time' = now
    /\ r_last_ai_call' = IF Ok(connected, d, g, 1) THEN now ELSE r_last_ai_call
    /\ r_ai_call_count' = IF Ok(connected, d, g, 2)
                          THEN r_ai_call_count + 1 ELSE r_ai_call_count
    /\ r_count_expires' = IF Ok(connected, d, g, 2) /\ r_ai_call_count = 0
                          THEN TRUE ELSE r_count_expires
    /\ UNCHANGED <<incPc, incExists, nCounterOps>>
    /\ connected' = is_connected(connected, d, 2)

\* the task starts without update_last_ai_call
TriggerAiDecision_unrecorded(d, g, awaits) ==
    /\ UNCHANGED <<dataVars, calcVars, snapVars, sysVars, counterVars>>
    /\ readyQ # <<>>
    /\ readyQ' = Tail(readyQ)
    /\ running' = IF awaits THEN [running EXCEPT ![Head(readyQ)] = @ + 1] ELSE running
    /\ lastEval' = NoEval
    /\ UNCHANGED <<now, connected, r_last_ai_call, r_ai_call_count, last_ai_call_time,
                   r_price_alert, r_ws_status, price_history,
                   websocket_status, mainPc, lastTriggerPrice>>

\* The first step of the oldest created task: _trigger_ai_decision_async up to
\* the await of the agent in _call_langgraph_agent_async.  awaits: the agent
\* integration exists and _prepare_state_data produced market data, so that
\* the task is suspended in the agent call; otherwise it ends in this step.
trigger_ai_decision_async(d, g, awaits) ==
    /\ readyQ # <<>>
    /\ readyQ' = Tail(readyQ)
    /\ update_last_ai_call(d, g)
    /\ running' = IF awaits THEN [running EXCEPT ![Head(readyQ)] = @ + 1] ELSE running
    /\ lastEval' = NoEval
    /\ UNCHANGED <<now, r_price_alert, r_ws_status, price_history,
                   websocket_status, mainPc, lastTriggerPrice>>

\* a decision task's first step on its own: the status dict left aside
TriggerAiDecision(d, g, awaits) ==
    /\ UNCHANGED <<dataVars, calcVars, snapVars, sysVars>>
    /\ trigger_ai_decision_async(d, g, awaits)

\* the returning call gives its invocation slot back
AgentReturns_refund(symbol) ==
    /\ UNCHANGED <<dataVars, calcVars, snapVars, sysVars, counterVars>>
    /\ running[symbol] > 0
    /\ running' = [running EXCEPT ![symbol] = @ - 1]
    /\ lastEval' = [NoEval EXCEPT !.returned = TRUE]
    /\ last_ai_call_time' = None
    /\ UNCHANGED <<now, connected, r_last_ai_call, r_ai_call_count, r_price_alert,
                   r_ws_status, price_history, websocket_status,
                   mainPc, readyQ, lastTriggerPrice>>

\* The agent call of a started task returns (a decision, a failure result or
\* an exception): _call_langgraph_agent_async after its await
call_langgraph_agent_returns(symbol) ==
    /\ running[symbol] > 0
    /\ running' = [running EXCEPT ![symbol] = @ - 1]
    /\ lastEval' = [NoEval EXCEPT !.returned = TRUE]
    /\ UNCHANGED <<now, connected, r_last_ai_call, r_ai_call_count, r_price_alert,
                   r_ws_status, last_ai_call_time, price_history, websocket_status,
                   mainPc, readyQ, lastTriggerPrice>>

\* the return of an agent call on its own: the status dict left aside
AgentReturns(symbol) ==
    /\ UNCHANGED <<dataVars, calcVars, snapVars, sysVars, counterVars>>
    /\ call_langgraph_agent_returns(symbol)

Next ==
    \/ \E step \in TickSteps : Tick(step)
    \/ \E f \in StartFaults : StartEngine(f[1], f[2])
    \/ \E f \in StartFaults : StartRunning(f[1], f[2])
    \/ \E symbol \in Symbols, f \in KlineFaults :
         \E price \in KlinePrices(symbol) : OnKlineUpdate(symbol, price, f[1], f[2])
    \/ \E f \in TaskFaults, awaits \in BOOLEAN : TriggerAiDecision(f[1], f[2], awaits)
    \/ \E symbol \in Symbols : AgentReturns(symbol)

Spec == Init /\ [][Next]_vars

\* The event loop runs every created task: asyncio starts ready tasks in
\* creation order for as long as the loop runs.
FairSpec ==
    Spec /\ WF_vars(\E f \in TaskFaults, awaits \in BOOLEAN :
                       TriggerAiDecision(f[1], f[2], awaits))

\* ------------------------------------------------- the coordinator's runs
\* The process from its start to its end, and started again: the status dict
\* of the coordinator, the main loop of run() and the decision tasks.  The
\* mirror answers every call of a process that found it reachable.
SysSymbols == {"BTCUSDT"}
SysPrices == {1002}
TaskOutcomes == {"awaits", "no_agent", "no_data"}
LOOP_SLEEP == 30

\* start() with the status dict: start_time is set once more (initialize()
\* has set it before; nothing reads it until the main loop runs)
SystemStart(d, g) ==
    /\ start_running(d, g)
    /\ start_time' = now
    /\ UNCHANGED <<restarts, ai_decisions_made, ai_agent_status>>
    /\ UNCHANGED <<dataVars, calcVars, snapVars, counterVars>>

\* _trigger_ai_decision_async with the status dict, up to the await of the
\* agent call or to the early return of _call_langgraph_agent_async: without
\* an agent integration ("no_agent") or without market data ("no_data")
DecisionTask(d, g, outcome) ==
    /\ mainPc # "stopped"
    /\ trigger_ai_decision_async(d, g, outcome = "awaits")
    /\ ai_decisions_made' = ai_decisions_made + 1
    /\ ai_agent_status' = CASE outcome = "awaits" -> "thinking"
                             [] outcome = "no_agent" -> "error"
                             [] outcome = "no_data" -> "idle"
    /\ UNCHANGED <<restarts, start_time>>
    /\ UNCHANGED <<dataVars, calcVars, snapVars>>

\* _call_langgraph_agent_async after its await: the status is "idle" after a
\* result, successful or not, and "error" after an exception
AgentCallEnds(symbol, raised) ==
    /\ mainPc # "stopped"
    /\ call_langgraph_agent_returns(symbol)
    /\ ai_agent_status' = IF raised THEN "error" ELSE "idle"
    /\ UNCHANGED <<restarts, start_time, ai_decisions_made>>
    /\ UNCHANGED <<dataVars, calcVars, snapVars, counterVars>>

\* the forced trigger of the main loop creates its task
run_main_loop_schedules(d, g) ==
    /\ mainPc = "running"
    /\ now - start_time >= LOOP_SLEEP
    /\ update_system_status(websocket_status, d, g)
    /\ readyQ' = IF now - start_time >= FALLBACK_INTERVAL /\ ai_decisions_made = 0
                     /\ InFlight < MaxTasks
                  THEN Append(readyQ, "BTCUSDT") ELSE readyQ
    /\ lastEval' = NoEval
    /\ UNCHANGED <<now, r_last_ai_call, r_ai_call_count, r_price_alert,
                   last_ai_call_time, price_history, websocket_status, mainPc,
                   running, lastTriggerPrice, sysVars>>

\* One round of the main loop of run(), which runs in the main thread: after
\* time.sleep(30) the status is mirrored (_update_system_status, calls 1 and
\* 2).  With an uptime of FALLBACK_INTERVAL and no decision made so far the
\* loop calls asyncio.create_task, which raises RuntimeError in a thread
\* without a running event loop: no task is created, the finally clause runs
\* stop() (the streams are stopped, the status is mirrored by calls 3 and 4)
\* and the process ends with its tasks.  The data flow check that follows is
\* reached with an uptime below 30 only, which the sleep excludes.
run_main_loop(d, g) ==
    /\ mainPc = "running"
    /\ now - start_time >= LOOP_SLEEP
    /\ lastEval' = NoEval
    /\ IF now - start_time >= FALLBACK_INTERVAL /\ ai_decisions_made = 0
       THEN /\ mainPc' = "stopped"
            /\ websocket_status' = "disconnected"
            /\ ai_agent_status' = "stopped"
            /\ r_ws_status' = IF Ok(connected, d, g, 4) THEN "disconnected"
                              ELSE IF Ok(connected, d, g, 2) THEN websocket_status
                              ELSE r_ws_status
            /\ connected' = is_connected(connected, d, 4)
            /\ readyQ' = <<>>
            /\ running' = [s \in Symbols |-> 0]
            /\ UNCHANGED <<restarts, start_time, ai_decisions_made>>
       ELSE /\ update_system_status(websocket_status, d, g)
            /\ UNCHANGED <<websocket_status, mainPc, readyQ, running, sysVars>>
    /\ UNCHANGED <<now, r_last_ai_call, r_ai_call_count, r_price_alert,
                   last_ai_call_time, price_history, lastTriggerPrice>>

RunMainLoop(d, g) ==
    /\ run_main_loop(d, g)
    /\ UNCHANGED <<dataVars, calcVars, snapVars, counterVars>>

\* the new process starts with the time it finds nowhere
smart_trigger_init_forgets(conn) == None

\* SmartTrigger.__init__ of a new process: last_ai_call_time
smart_trigger_init(conn) == get_last_ai_call_time(r_last_ai_call, conn)

\* The process ends (it is stopped or killed at any point after its start)
\* and is started again: the modules are loaded and main() constructs the
\* coordinator.  conn: the store answers the new process.  The store keeps
\* what it held; the tasks of the old process are gone.
ProcessRestarts(conn) ==
    /\ mainPc # "constructed"
    /\ restarts < MaxRestarts
    /\ restarts' = restarts + 1
    /\ connected' = conn
    /\ last_ai_call_time' = smart_trigger_init(conn)
    /\ price_history' = [s \in Symbols |-> None]
    /\ websocket_status' = "disconnected"
    /\ mainPc' = "constructed"
    /\ readyQ' = <<>>
    /\ running' = [s \in Symbols |-> 0]
    /\ start_time' = None
    /\ ai_decisions_made' = 0
    /\ ai_agent_status' = "idle"
    /\ lastEval' = NoEval
    /\ UNCHANGED <<now, r_last_ai_call, r_ai_call_count, r_price_alert,
                   r_ws_status, lastTriggerPrice>>
    /\ UNCHANGED <<dataVars, calcVars, snapVars, counterVars>>

\* a price callback while the process runs
SystemKlineUpdate(symbol, price, d, g) ==
    /\ mainPc # "stopped"
    /\ OnKlineUpdate(symbol, price, d, g)

SystemNext ==
    \/ \E step \in TickSteps : Tick(step)
    \/ \E f \in StartFaults : StartEngine(f[1], f[2])
    \/ \E f \in StartFaults : SystemStart(f[1], f[2])
    \/ \E symbol \in SysSymbols, price \in SysPrices, f \in StartFaults :
         SystemKlineUpdate(symbol, price, f[1], f[2])
    \/ \E f \in TaskFaults, outcome \in TaskOutcomes : DecisionTask(f[1], f[2], outcome)
    \/ \E symbol \in SysSymbols, raised \in BOOLEAN : AgentCallEnds(symbol, raised)
    \/ \E f \in StartFaults : RunMainLoop(f[1], f[2])
    \/ \E conn \in BOOLEAN : ProcessRestarts(conn)

SystemSpec == Init /\ [][SystemNext]_vars

\* ------------------------------------------------------------- DataEngine
\* A kline message msg with msg['k']: close time T (kline['T']), closed flag x,
\* close, high and low price c, h, l, interval i.  The messages of the model
\* are bars traded at one price (h = l = c).
Kline(T, x, c, i) == [T |-> T, x |-> x, c |-> c, h |-> c, l |-> c, i |-> i]

\* _preload_historical_klines: what the REST call returned for limit=100, n
\* bars, converted to messages; all are flagged 'x': True
PreloadedKlines(n) == [k \in 1..n |-> Kline(k, TRUE, 1000, "1m")]

\* numbers of bars a preload leaves in a buffer (0: the preload failed)
PreloadLens == {0, 6, 7, 14, 19, 34, 49, 99, 100}

\* seq[-n:]
LastN(seq, n) ==
    IF Len(seq) > n THEN SubSeq(seq, Len(seq) - n + 1, Len(seq)) ELSE seq

\* the cache is never cut
append_kline_uncut(cache, msg) == Append(cache, msg)

\* the cache grown beyond 100 keeps its first 100 messages
append_kline_keep_oldest(cache, msg) ==
    LET a == Append(cache, msg)
    IN  IF Len(a) > BUFFER_CAPACITY THEN SubSeq(a, 1, BUFFER_CAPACITY) ELSE a

\* klines_cache[symbol].append(msg), then the cut to the last 100
append_kline(cache, msg) ==
    LET a == Append(cache, msg)
    IN  IF Len(a) > BUFFER_CAPACITY THEN LastN(a, BUFFER_CAPACITY) ELSE a

\* the closed 1m messages among the first n of a sequence: the latest one
RECURSIVE LastClosed1m(_, _)
LastClosed1m(seq, n) ==
    IF n = 0 THEN None
    ELSE IF seq[n].x /\ seq[n].i = "1m" THEN n
    ELSE LastClosed1m(seq, n - 1)

\* close time of the 3m bar that contains the 1m bar closing at t
T3(t) == 3 * ((t + 2) \div 3)

\* What the kline streams of a symbol (1m and 3m, one callback for both) can
\* deliver while the exchange builds the 1m bar closing at t: an update of the
\* open 1m or 3m bar, the close of the 1m bar, the close of the 3m bar that
\* ended with the previous 1m bar, and after a reconnect the latest closed 1m
\* message once more.
KlineMsgs(symbol, t, seen) ==
    IF symbol # "BTCUSDT" THEN { Kline(t, TRUE, 1000, "1m") }
    ELSE { Kline(t, x, c, "1m") : x \in BOOLEAN, c \in {1000, 1002} }
         \cup { Kline(T3(t), FALSE, 1000, "3m") }
         \cup (IF t > 1 /\ (t - 1) % 3 = 0
               THEN { Kline(t - 1, TRUE, 1000, "3m") } ELSE {})
         \cup (IF LastClosed1m(seen, Len(seen)) # None
               THEN { seen[LastClosed1m(seen, Len(seen))] } ELSE {})

\* ----------------------------------------------------- TechnicalIndicators
\* RSI and ATR are exact fractions <<numerator, denominator>> in lowest terms.
\* The exponential averages are fixed point numbers, EMA_SCALE to one price
\* unit, rounded down at every step.
EMA_SCALE == 1000

RECURSIVE GCD(_, _)
GCD(a, b) == IF b = 0 THEN a ELSE GCD(b, a % b)

Frac(n, d) == LET g == GCD(n, d) IN <<n \div g, d \div g>>

Max(a, b) == IF a >= b THEN a ELSE b

\* [float(kline['k']['c']) for kline in klines]
ClosePrices(klines) == [k \in 1..Len(klines) |-> klines[k].c]

\* sum of the gains of the deltas prices[j] - prices[j-1], j in from..to
RECURSIVE SumGains(_, _, _)
SumGains(prices, from, to) ==
    IF from > to THEN 0
    ELSE Max(prices[to] - prices[to - 1], 0) + SumGains(prices, from, to - 1)

RECURSIVE SumLosses(_, _, _)
SumLosses(prices, from, to) ==
    IF from > to THEN 0
    ELSE Max(prices[to - 1] - prices[to], 0) + SumLosses(prices, from, to - 1)

\* the relative strength itself as a percentage: 100 * avg_gain / avg_loss
calculate_rsi_as_ratio(prices, period) ==
    IF Len(prices) < period + 1 THEN <<50, 1>>
    ELSE LET n == Len(prices)
             G == SumGains(prices, n - period + 1, n)
             L == SumLosses(prices, n - period + 1, n)
         IN  IF L = 0 THEN <<100, 1>> ELSE Frac(100 * G, L)

\* a series without gains and without losses reads neutral
calculate_rsi_flat_neutral(prices, period) ==
    IF Len(prices) < period + 1 THEN <<50, 1>>
    ELSE LET n == Len(prices)
             G == SumGains(prices, n - period + 1, n)
             L == SumLosses(prices, n - period + 1, n)
         IN  IF L = 0 THEN (IF G = 0 THEN <<50, 1>> ELSE <<100, 1>>)
             ELSE Frac(100 * G, G + L)

\* 50.0 below period + 1 prices; else 100 - 100 / (1 + avg_gain / avg_loss) =
\* 100 * gains / (gains + losses) over the last period deltas, 100.0 without
\* a loss
calculate_rsi(prices, period) ==
    IF Len(prices) < period + 1 THEN <<50, 1>>
    ELSE LET n == Len(prices)
             G == SumGains(prices, n - period + 1, n)
             L == SumLosses(prices, n - period + 1, n)
         IN  IF L = 0 THEN <<100, 1>> ELSE Frac(100 * G, G + L)

\* ewm(span=period, adjust=False).mean() up to the n-th price:
\* y1 = x1, y = (1 - a) * y + a * x with a = 2 / (period + 1).
\* The recursion goes in blocks of 10 prices, which bounds its depth.
EmaStep(y, x, period) ==
    ((period - 1) * y + 2 * x * EMA_SCALE) \div (period + 1)

BlockStart(n) == ((n - 2) \div 10) * 10 + 1

RECURSIVE EmaSteps(_, _, _, _, _)
EmaSteps(prices, period, y0, m, k) ==
    IF k = m THEN y0
    ELSE EmaStep(EmaSteps(prices, period, y0, m, k - 1), prices[k], period)

RECURSIVE EmaUpTo(_, _, _)
EmaUpTo(prices, period, n) ==
    IF n = 1 THEN prices[1] * EMA_SCALE
    ELSE LET y0 == EmaUpTo(prices, period, BlockStart(n))
         IN  IF y0 = None THEN None
             ELSE EmaSteps(prices, period, y0, BlockStart(n), n)

\* the sentinel also at exactly period prices
calculate_ema_one_more(prices, period) ==
    IF Len(prices) < period + 1 THEN 0 ELSE EmaUpTo(prices, period, Len(prices))

\* 0.0 below period prices
calculate_ema(prices, period) ==
    IF Len(prices) < period THEN 0 ELSE EmaUpTo(prices, period, Len(prices))

\* one more price x on <<ema 12, ema 26, ema 9 of their difference>>
MacdStep(p, x) ==
    LET fast == (11 * p[1] + 2 * x * EMA_SCALE) \div 13
        slow == (25 * p[2] + 2 * x * EMA_SCALE) \div 27
    IN  <<fast, slow, (8 * p[3] + 2 * (fast - slow)) \div 10>>

RECURSIVE MacdSteps(_, _, _, _)
MacdSteps(prices, p0, m, k) ==
    IF k = m THEN p0
    ELSE MacdStep(MacdSteps(prices, p0, m, k - 1), prices[k])

RECURSIVE MacdUpTo(_, _)
MacdUpTo(prices, n) ==
    IF n = 1 THEN <<prices[1] * EMA_SCALE, prices[1] * EMA_SCALE, 0>>
    ELSE LET p0 == MacdUpTo(prices, BlockStart(n))
         IN  IF p0 = <<>> THEN p0
             ELSE MacdSteps(prices, p0, BlockStart(n), n)

\* zeros below slow + signal = 35 prices
calculate_macd(prices) ==
    IF Len(prices) < 26 + 9
    THEN [macd_line |-> 0, macd_signal |-> 0, macd_histogram |-> 0]
    ELSE LET p == MacdUpTo(prices, Len(prices))
         IN  [macd_line |-> p[1] - p[2], macd_signal |-> p[3],
              macd_histogram |-> p[1] - p[2] - p[3]]

\* sum of the true ranges of klines[from..to], each against its predecessor
RECURSIVE SumTrueRanges(_, _, _)
SumTrueRanges(klines, from, to) ==
    IF from > to THEN 0
    ELSE Max(klines[to].h - klines[to].l,
             Max(Abs(klines[to].h - klines[to - 1].c),
                 Abs(klines[to].l - klines[to - 1].c)))
         + SumTrueRanges(klines, from, to - 1)

\* the range high - low taken for the true range
RECURSIVE SumHighLow(_, _, _)
SumHighLow(klines, from, to) ==
    IF from > to THEN 0
    ELSE klines[to].h - klines[to].l + SumHighLow(klines, from, to - 1)

calculate_atr_high_low(klines, period) ==
    IF Len(klines) < period + 1 THEN <<0, 1>>
    ELSE LET sum == SumHighLow(klines, Len(klines) - period + 1, Len(klines))
         IN  IF sum >= 0 THEN Frac(sum, period)
             ELSE <<0 - Frac(0 - sum, period)[1], Frac(0 - sum, period)[2]>>

\* 0.0 below period + 1 klines, else the mean of the last period true ranges
calculate_atr(klines, period) ==
    IF Len(klines) < period + 1 THEN <<0, 1>>
    ELSE Frac(SumTrueRanges(klines, Len(klines) - period + 1, Len(klines)), period)

\* the indicators dict of _calculate_and_update_indicators
IndicatorSet(klines) ==
    LET prices == ClosePrices(klines)
        macd   == IF Len(prices) >= 35 THEN calculate_macd(prices)
                  ELSE [macd_line |-> 0, macd_signal |-> 0, macd_histogram |-> 0]
    IN  [rsi_7 |-> calculate_rsi(prices, 7),
         rsi_14 |-> calculate_rsi(prices, 14),
         ema_20 |-> calculate_ema(prices, 20),
         ema_50 |-> calculate_ema(prices, 50),
         macd_line |-> macd.macd_line,
         macd_signal |-> macd.macd_signal,
         macd_histogram |-> macd.macd_histogram,
         atr_14 |-> IF Len(klines) >= 14 THEN calculate_atr(klines, 14) ELSE <<0, 1>>]

\* hset of the symbol's market data hash (its price); a failed call writes nothing
update_market_data(stored, symbol, price, ok) ==
    IF ok THEN [stored EXCEPT ![symbol] = price] ELSE stored

\* hset of the symbol's indicator hash; a failed call writes nothing
update_indicators(stored, symbol, indicators, ok) ==
    IF ok THEN [stored EXCEPT ![symbol] = indicators] ELSE stored

\* the list comprehension over the buffer raises ValueError: float() rejects
\* the close price of one of its klines
FloatRaises(klines) == \E k \in 1..Len(klines) : klines[k].c = NotNumeric

\* _calculate_and_update_indicators: nothing below 7 klines, and nothing when
\* the computation raises (the exception is caught and printed)
calculate_and_update_indicators(stored, symbol, klines, ok) ==
    IF Len(klines) < 7 THEN stored
    ELSE IF FloatRaises(klines) THEN stored
    ELSE update_indicators(stored, symbol, IndicatorSet(klines), ok)

\* ------------------------------------------------- the data engine's runs
\* the gate left aside: constructed on an empty mirror and never started
GateIdle ==
    /\ now = StartTime
    /\ r_last_ai_call = None
    /\ r_ai_call_count = 0
    /\ r_price_alert = [s \in Symbols |-> None]
    /\ r_ws_status = ""
    /\ lastTriggerPrice = [s \in Symbols |-> None]
    /\ last_ai_call_time = None
    /\ price_history = [s \in Symbols |-> None]
    /\ websocket_status = "disconnected"
    /\ mainPc = "constructed"
    /\ readyQ = <<>>
    /\ running = [s \in Symbols |-> 0]
    /\ lastEval = NoEval
    /\ SysIdle
    /\ CounterIdle

\* What the preloads leave: BTCUSDT n bars, the other symbols a full preload,
\* or nothing for any symbol when the preload failed.
Preloads ==
    { [s \in Symbols |-> IF s = "BTCUSDT" THEN PreloadedKlines(n)
                         ELSE IF n = 0 THEN <<>> ELSE PreloadedKlines(PRELOAD_LIMIT)]
      : n \in PreloadLens }

\* The indicator hashes the mirror holds when the program starts: none, or the
\* BTCUSDT set a previous run computed over 36 bars (the hashes do not expire).
PersistedIndicators ==
    { [s \in Symbols |-> NoIndicators],
      [s \in Symbols |-> IF s = "BTCUSDT" THEN IndicatorSet(PreloadedKlines(36))
                         ELSE NoIndicators] }

\* DataEngine.__init__: the preload fills the buffers and computes each
\* symbol's indicators
RECURSIVE PreloadIndicators(_, _, _, _)
PreloadIndicators(stored, caches, S, ok) ==
    IF S = {} THEN stored
    ELSE LET sym == CHOOSE x \in S : TRUE
         IN  PreloadIndicators(
                 calculate_and_update_indicators(stored, sym, caches[sym], ok),
                 caches, S \ {sym}, ok)

data_engine_init(caches, stored) ==
    /\ klines_cache = caches
    /\ arrived = caches
    /\ streamT = [s \in Symbols |-> Len(caches[s]) + 1]
    /\ r_indicators = PreloadIndicators(stored, caches, {s \in Symbols : caches[s] # <<>>}, connected)
    /\ FeedIdle

DataInit ==
    /\ GateIdle
    /\ connected \in BOOLEAN
    /\ \E caches \in Preloads, stored \in PersistedIndicators :
          data_engine_init(caches, stored)
    /\ CalcIdle
    /\ SnapIdle

\* _handle_market_data -> _handle_kline_data_single(msg) for a kline message
\* of the symbol's 1m or 3m stream: the message is buffered, and for a closed
\* one the market data are mirrored, the last price is kept, the indicators
\* are computed and published and on_kline_callback is invoked.  What the
\* callback does is on_kline_update.  For a closed message whose close price
\* float() rejects, the handler raises after buffering and ends in its except
\* clause.
handle_kline_data_single(symbol, msg) ==
    LET completed == msg.x /\ msg.c # NotNumeric
    IN
    /\ nEvents < MaxEvents
    /\ nEvents' = nEvents + 1
    /\ klines_cache' = [klines_cache EXCEPT ![symbol] = append_kline(@, msg)]
    /\ arrived' = [arrived EXCEPT ![symbol] = Append(@, msg)]
    /\ streamT' = IF msg.x /\ msg.i = "1m" /\ msg.T = streamT[symbol]
                  THEN [streamT EXCEPT ![symbol] = @ + 1] ELSE streamT
    /\ r_indicators' = IF completed
                       THEN calculate_and_update_indicators(
                                r_indicators, symbol, klines_cache'[symbol], connected)
                       ELSE r_indicators
    /\ r_market_data' = IF completed
                        THEN update_market_data(r_market_data, symbol, msg.c, connected)
                        ELSE r_market_data
    /\ last_prices' = IF completed THEN [last_prices EXCEPT ![symbol] = msg.c]
                      ELSE last_prices
    /\ n_callbacks' = IF completed THEN n_callbacks + 1 ELSE n_callbacks
    /\ UNCHANGED <<ws_errors, stream_closed>>

\* the kline handler on its own: the callback invoked, its effects left aside
HandleKlineDataSingle(symbol, msg) ==
    /\ handle_kline_data_single(symbol, msg)
    /\ UNCHANGED connected
    /\ UNCHANGED <<gateVars, calcVars, snapVars, sysVars, counterVars>>

DataNext ==
    \E symbol \in Symbols :
        \E msg \in KlineMsgs(symbol, streamT[symbol], arrived[symbol]) :
            HandleKlineDataSingle(symbol, msg)

DataSpec == DataInit /\ [][DataNext]_vars

\* the streams also deliver a closed 1m message whose close price is not a
\* number
MalformedKlineMsgs(symbol, t) ==
    IF symbol = "BTCUSDT"
    THEN { [Kline(t, TRUE, 1000, "1m") EXCEPT !.c = NotNumeric] }
    ELSE {}

FaultyFeedNext ==
    \E symbol \in Symbols :
        \E msg \in KlineMsgs(symbol, streamT[symbol], arrived[symbol])
                       \cup MalformedKlineMsgs(symbol, streamT[symbol]) :
            HandleKlineDataSingle(symbol, msg)

FaultyFeedSpec == DataInit /\ [][FaultyFeedNext]_vars

\* ------------------------------------------ data engine and gate together
\* The runs of the whole program: the stream callbacks of the data engine,
\* each with the callback into the coordinator it ends in, and the decision
\* tasks.  Every symbol's preload has left 6 bars.
EnginePreloadLen == 6

EngineInit ==
    /\ GateInit
    /\ data_engine_init([s \in Symbols |-> PreloadedKlines(EnginePreloadLen)],
                        [s \in Symbols |-> NoIndicators])
    /\ CalcIdle
    /\ SnapIdle

\* the kline messages of these runs: the 1m stream's updates and closes
EngineKlineMsgs(symbol, t) ==
    { Kline(t, x, c, "1m") : x \in BOOLEAN, c \in KlinePrices(symbol) \ {0} }

\* _handle_market_data(msg) for a kline message
KlineEvent(symbol, msg, d, g) ==
    /\ mainPc \in {"starting", "running"}
    /\ nEvents < MaxEngineEvents
    /\ handle_kline_data_single(symbol, msg)
    /\ IF msg.x /\ msg.c # NotNumeric
       THEN on_kline_update(symbol, msg.c, d, g)
       ELSE /\ lastEval' = NoEval
            /\ UNCHANGED <<now, connected, r_last_ai_call, r_ai_call_count,
                           r_price_alert, r_ws_status, last_ai_call_time,
                           price_history, websocket_status, mainPc, readyQ,
                           running, lastTriggerPrice>>
    /\ UNCHANGED <<calcVars, snapVars, sysVars, counterVars>>

\* _handle_ticker_data_single: the last price is kept, the market data are
\* mirrored and on_kline_callback is invoked with the ticker's price
handle_ticker_data_single(symbol, price) ==
    /\ nEvents < MaxEvents
    /\ nEvents' = nEvents + 1
    /\ last_prices' = [last_prices EXCEPT ![symbol] = price]
    /\ r_market_data' = update_market_data(r_market_data, symbol, price, connected)
    /\ n_callbacks' = n_callbacks + 1
    /\ UNCHANGED <<klines_cache, r_indicators, streamT, arrived, ws_errors,
                   stream_closed>>

\* _handle_ticker_data(msg) for a 24hrTicker message
TickerEvent(symbol, price, d, g) ==
    /\ mainPc \in {"starting", "running"}
    /\ nEvents < MaxEngineEvents
    /\ handle_ticker_data_single(symbol, price)
    /\ on_kline_update(symbol, price, d, g)
    /\ UNCHANGED <<calcVars, snapVars, sysVars, counterVars>>

\* the error message is answered by resetting every buffer
handle_error_message_resets ==
    /\ nEvents < MaxEvents
    /\ nEvents' = nEvents + 1
    /\ ws_errors' = ws_errors + 1
    /\ stream_closed' = TRUE
    /\ klines_cache' = [s \in Symbols |-> <<>>]
    /\ UNCHANGED <<r_indicators, streamT, arrived, last_prices, r_market_data,
                   n_callbacks>>

\* the branch msg.get('e') == 'error' of _handle_market_data and of
\* _handle_ticker_data: the message is printed and the callback returns
handle_error_message ==
    /\ nEvents < MaxEvents
    /\ nEvents' = nEvents + 1
    /\ ws_errors' = ws_errors + 1
    /\ stream_closed' = TRUE
    /\ UNCHANGED <<klines_cache, r_indicators, streamT, arrived, last_prices,
                   r_market_data, n_callbacks>>

\* a stream's connection has closed: the library delivers an error message
\* to the stream's callback
ErrorEvent ==
    /\ mainPc \in {"starting", "running"}
    /\ nEvents < MaxEngineEvents
    /\ handle_error_message
    /\ lastEval' = NoEval
    /\ UNCHANGED <<now, connected, r_last_ai_call, r_ai_call_count,
                   r_price_alert, r_ws_status, last_ai_call_time,
                   price_history, websocket_status, mainPc, readyQ,
                   running, lastTriggerPrice>>
    /\ UNCHANGED <<calcVars, snapVars, sysVars, counterVars>>

\* the library reopens the connection; the program is not told
StreamReopens ==
    /\ stream_closed
    /\ stream_closed' = FALSE
    /\ lastEval' = NoEval
    /\ UNCHANGED <<klines_cache, r_indicators, streamT, arrived, nEvents,
                   last_prices, r_market_data, n_callbacks, ws_errors>>
    /\ UNCHANGED <<now, connected, r_last_ai_call, r_ai_call_count,
                   r_price_alert, r_ws_status, last_ai_call_time,
                   price_history, websocket_status, mainPc, readyQ,
                   running, lastTriggerPrice>>
    /\ UNCHANGED <<calcVars, snapVars, sysVars, counterVars>>

EngineNext ==
    \/ \E step \in TickSteps : Tick(step)
    \/ \E f \in StartFaults : StartEngine(f[1], f[2])
    \/ \E f \in StartFaults : StartRunning(f[1], f[2])
    \/ \E symbol \in Symbols, f \in EngineFaults :
         \E msg \in EngineKlineMsgs(symbol, streamT[symbol]) :
             KlineEvent(symbol, msg, f[1], f[2])
    \/ \E symbol \in Symbols, f \in EngineFaults :
         \E price \in KlinePrices(symbol) : TickerEvent(symbol, price, f[1], f[2])
    \/ ErrorEvent
    \/ StreamReopens
    \/ \E f \in TaskFaults, awaits \in BOOLEAN : TriggerAiDecision(f[1], f[2], awaits)
    \/ \E symbol \in Symbols : AgentReturns(symbol)

EngineSpec == EngineInit /\ [][EngineNext]_vars

\* ------------------------------------------------------- get_klines_data
\* The buffer as Python holds it: a list of references to dict objects.
\* kline_objs[id] is the content of the dict with identity id, cache_refs the
\* identities in klines_cache[symbol], and klines_cache the contents they
\* refer to.
Deref(objs, refs) == [k \in 1..Len(refs) |-> objs[refs[k]]]

\* the buffers' contents, given the objects' contents
CacheContents(objs) == [s \in Symbols |-> Deref(objs, cache_refs[s])]

SnapSymbols == Symbols \cup {"SOLUSDT"}    \* the last has no buffer

SnapLimits == {0, 1, 2, 50}                \* 50: the default of limit

\* the preload has left three BTCUSDT bars and one ETHUSDT bar
SnapInit ==
    /\ GateIdle
    /\ connected = FALSE
    /\ CalcIdle
    /\ FeedIdle
    /\ kline_objs = PreloadedKlines(3) \o PreloadedKlines(1)
    /\ cache_refs = [s \in Symbols |-> IF s = "BTCUSDT" THEN <<1, 2, 3>> ELSE <<4>>]
    /\ klines_cache = CacheContents(kline_objs)
    /\ arrived = klines_cache
    /\ streamT = [s \in Symbols |-> Len(klines_cache[s]) + 1]
    /\ r_indicators = [s \in Symbols |-> NoIndicators]
    /\ returned = NotReturned
    /\ nCallerOps = 0

\* what a step of the caller leaves alone
CallerFrame ==
    /\ nCallerOps < MaxCallerOps
    /\ nCallerOps' = nCallerOps + 1
    /\ klines_cache' = CacheContents(kline_objs')
    /\ UNCHANGED <<cache_refs, connected, gateVars, calcVars, sysVars, counterVars, r_indicators, streamT,
                   arrived, nEvents, last_prices, r_market_data, n_callbacks,
                   ws_errors, stream_closed>>

\* seq[-limit:] for limit >= 0: the slice starts limit places before the end,
\* and -0 is 0, the start of the list
SliceFromMinus(seq, limit) == IF limit = 0 THEN seq ELSE LastN(seq, limit)

\* get_klines_data(symbol, limit): self.klines_cache[symbol][-limit:], a new
\* list of the same dict objects; None for a symbol without a buffer
GetKlinesData(symbol, limit) ==
    /\ returned' = IF symbol \in Symbols
                   THEN [held |-> TRUE, refs |-> SliceFromMinus(cache_refs[symbol], limit),
                         symbol |-> symbol, limit |-> limit]
                   ELSE [held |-> FALSE, refs |-> <<>>, symbol |-> symbol, limit |-> limit]
    /\ UNCHANGED <<kline_objs, cache_refs, nCallerOps, connected, gateVars, calcVars, sysVars, counterVars,
                   dataVars>>

\* the caller: returned.append(bar) with a dict of its own
CallerAppends(c) ==
    /\ returned.held
    /\ kline_objs' = Append(kline_objs, Kline(0, TRUE, c, "1m"))
    /\ returned' = [returned EXCEPT !.refs = Append(@, Len(kline_objs) + 1)]
    /\ CallerFrame

\* del returned[i]
CallerRemoves(i) ==
    /\ returned.held /\ i \in 1..Len(returned.refs)
    /\ returned' = [returned EXCEPT !.refs =
                       SubSeq(@, 1, i - 1) \o SubSeq(@, i + 1, Len(@))]
    /\ UNCHANGED kline_objs
    /\ CallerFrame

\* returned[i] = bar with a dict of its own
CallerReplaces(i, c) ==
    /\ returned.held /\ i \in 1..Len(returned.refs)
    /\ kline_objs' = Append(kline_objs, Kline(0, TRUE, c, "1m"))
    /\ returned' = [returned EXCEPT !.refs[i] = Len(kline_objs) + 1]
    /\ CallerFrame

\* returned[i]['k']['c'] = c: a field of a bar the caller was handed
CallerSetsField(i, c) ==
    /\ returned.held /\ i \in 1..Len(returned.refs)
    /\ kline_objs' = [kline_objs EXCEPT ![returned.refs[i]].c = c]
    /\ UNCHANGED returned
    /\ CallerFrame

SnapNext ==
    \/ \E symbol \in SnapSymbols, limit \in SnapLimits : GetKlinesData(symbol, limit)
    \/ \E c \in {1000, 1002} : CallerAppends(c)
    \/ \E i \in 1..BUFFER_CAPACITY : CallerRemoves(i)
    \/ \E i \in 1..BUFFER_CAPACITY, c \in {1000, 1002} : CallerReplaces(i, c)
    \/ \E i \in 1..BUFFER_CAPACITY, c \in {1000, 1002} : CallerSetsField(i, c)

SnapSpec == SnapInit /\ [][SnapNext]_vars

\* ------------------------------------- the indicator functions on their own
\* a kline of the list handed to calculate_atr: close, high and low
KlineOf(c, h, l) == [T |-> 0, x |-> TRUE, c |-> c, h |-> h, l |-> l, i |-> "1m"]

\* bars of the inputs: flat, rising with a range, falling with its high below
\* its low, flat higher up
CalcBars ==
    { KlineOf(1000, 1000, 1000), KlineOf(1002, 1004, 999),
      KlineOf(998, 997, 1001),   KlineOf(1003, 1003, 1003) }

FlatKlines(n) == [k \in 1..n |-> KlineOf(1000, 1000, 1000)]

\* numbers of flat bars an input starts with: the inputs' lengths lie around
\* the minimum lengths 7, 8, 14, 15, 20, 35 and 50
CalcPrefixLens == {0, 5, 12, 18, 32, 47}

CalcPeriods == {1, 2, 3, 7, 14}

CalcTails == UNION { [1..k -> CalcBars] : k \in 0..MaxTail }

CalcInit ==
    /\ GateIdle
    /\ connected = FALSE
    /\ DataIdle
    /\ SnapIdle
    /\ calc_klines \in { FlatKlines(n) \o tail : n \in CalcPrefixLens, tail \in CalcTails }
    /\ calc_period \in CalcPeriods
    /\ calc_result = NoResult

\* one call of a function; the results of earlier calls are discarded
Returns(fn, value) ==
    /\ calc_result' = [called |-> TRUE, fn |-> fn, value |-> value]
    /\ UNCHANGED <<calc_klines, calc_period, connected, gateVars, dataVars, snapVars,
                   sysVars, counterVars>>

CallCalculateRsi ==
    Returns("calculate_rsi", calculate_rsi(ClosePrices(calc_klines), calc_period))

CallCalculateEma ==
    Returns("calculate_ema", calculate_ema(ClosePrices(calc_klines), calc_period))

CallCalculateMacd ==
    Returns("calculate_macd", calculate_macd(ClosePrices(calc_klines)))

CallCalculateAtr ==
    Returns("calculate_atr", calculate_atr(calc_klines, calc_period))

\* the indicators dict _calculate_and_update_indicators builds from a buffer
CallCalculateIndicators ==
    Returns("indicators", IndicatorSet(calc_klines))

CalcNext ==
    \/ CallCalculateRsi
    \/ CallCalculateEma
    \/ CallCalculateMacd
    \/ CallCalculateAtr
    \/ CallCalculateIndicators

CalcSpec == CalcInit /\ [][CalcNext]_vars

\* ------------------------------------------- increment_ai_call_count
\* The commands of one call of increment_ai_call_count, each a round trip to
\* the store, and the store expiring the counter key in between.  The calls
\* come one after the other (they are made on the event loop).
CounterInit ==
    /\ GateIdle
    /\ connected \in BOOLEAN
    /\ DataIdle
    /\ CalcIdle
    /\ SnapIdle

\* what a step on the counter key leaves alone
CounterFrame ==
    UNCHANGED <<now, connected, r_last_ai_call, r_price_alert, r_ws_status,
                last_ai_call_time, price_history, websocket_status, mainPc, readyQ,
                running, lastTriggerPrice, lastEval, dataVars, calcVars, snapVars,
                sysVars>>

\* after incr: expire is called only when the key did not exist before
incr_sets_expiry(exists) == IF exists THEN "idle" ELSE "expire"

\* is_connected(), then exists = redis_client.exists(key); without a
\* connection the call returns 0 at once
IncrChecksExists ==
    /\ incPc = "idle"
    /\ nCounterOps < MaxCounterOps
    /\ nCounterOps' = nCounterOps + 1
    /\ IF connected
       THEN /\ incExists' = (r_ai_call_count > 0)
            /\ incPc' = "incr"
       ELSE UNCHANGED <<incExists, incPc>>
    /\ UNCHANGED <<r_ai_call_count, r_count_expires>>
    /\ CounterFrame

\* count = redis_client.incr(key): an absent key is created with the value 1
\* and without an expiry; an existing key keeps the expiry it has
IncrIncrements ==
    /\ incPc = "incr"
    /\ r_ai_call_count' = r_ai_call_count + 1
    /\ r_count_expires' = IF r_ai_call_count = 0 THEN FALSE ELSE r_count_expires
    /\ incPc' = incr_sets_expiry(incExists)
    /\ UNCHANGED <<incExists, nCounterOps>>
    /\ CounterFrame

\* redis_client.expire(key, 3600), and the call returns
IncrSetsExpiry ==
    /\ incPc = "expire"
    /\ r_count_expires' = (r_ai_call_count > 0)
    /\ incPc' = "idle"
    /\ UNCHANGED <<r_ai_call_count, incExists, nCounterOps>>
    /\ CounterFrame

\* the store: the key's expiry has run out and the key is deleted
KeyExpires ==
    /\ r_ai_call_count > 0
    /\ r_count_expires
    /\ r_ai_call_count' = 0
    /\ r_count_expires' = FALSE
    /\ UNCHANGED <<incPc, incExists, nCounterOps>>
    /\ CounterFrame

CounterNext ==
    \/ IncrChecksExists
    \/ IncrIncrements
    \/ IncrSetsExpiry
    \/ KeyExpires

CounterSpec == CounterInit /\ [][CounterNext]_vars

TypeOK ==
    /\ now \in StartTime..MaxTime
    /\ connected \in BOOLEAN
    /\ last_ai_call_time \in {None} \cup 0..MaxTime
    /\ r_ws_status \in WsValues
    /\ \A s \in Symbols : price_history[s] \in Prices \cup {None}
    /\ InFlight <= MaxTasks

\* ------------------------------------------------------------------ claims
\* The step just taken was a price callback that evaluated the gate.  Such a
\* step leaves now and last_ai_call_time as the gate read them.
Evaluated == lastEval.sym # ""

CooldownActive ==
    last_ai_call_time # None /\ now - last_ai_call_time < MIN_CALL_INTERVAL

FallbackDue ==
    last_ai_call_time = None \/ now - last_ai_call_time >= FALLBACK_INTERVAL

\* the gate got past the cooldown and made the volatility check
VolatilityChecked == Evaluated /\ Len(lastEval.checks) >= 2

\* the step just taken started a decision task
TaskStarts == Len(readyQ') < Len(readyQ)

\* C1: an evaluation made less than MIN_CALL_INTERVAL after the last recorded
\* invocation answers no-trigger, with the cooldown the only check made, and
\* creates no task.
C1_CooldownHardGate ==
    (Evaluated /\ CooldownActive) =>
        /\ ~lastEval.result
        /\ lastEval.checks = <<"min_interval">>
        /\ lastEval.created = 0

\* an evaluation inside the cooldown while the price has moved by the
\* threshold since the symbol's trigger and the mirror is disconnected
C1_Witness ==
    /\ Evaluated /\ CooldownActive
    /\ ~connected
    /\ lastEval.price = 1002
    /\ price_history[lastEval.sym] = 1000

\* C2: a decision task records its invocation only when the previously
\* recorded invocation is at least MIN_CALL_INTERVAL old (or there is none), so
\* that two recorded invocations are never closer than the cooldown.
C2_InvocationsSpaced ==
    [][TaskStarts =>
         (last_ai_call_time = None \/ now - last_ai_call_time >= MIN_CALL_INTERVAL)]_vars

\* C3: an evaluation made while the hourly counter exceeds the configured
\* ceiling answers no-trigger.
C3_CeilingForcesNoTrigger ==
    (Evaluated /\ r_ai_call_count > MAX_AI_CALLS_PER_HOUR) => ~lastEval.result

\* C4: past the cooldown, with a last trigger price P > 0 read, no fallback due
\* and health good, the gate triggers iff |price - P| / P >= the threshold.
HealthDegraded ==
    ~lastEval.redisOk \/ (r_ws_status # "" /\ r_ws_status # "connected")

C4_VolatilityIffThreshold ==
    (VolatilityChecked /\ lastEval.P > 0 /\ ~FallbackDue /\ ~HealthDegraded) =>
        (lastEval.result <=>
           Abs(lastEval.price - lastEval.P) * THRESHOLD_DEN >= THRESHOLD_NUM * lastEval.P)

\* a move of exactly 0.2% from the last trigger price triggers, nothing else due
C4_Witness ==
    /\ VolatilityChecked /\ ~FallbackDue /\ ~HealthDegraded
    /\ lastEval.P = 1000 /\ lastEval.price = 1002
    /\ lastEval.result

\* C5: the last trigger price the volatility check reads is the price of the
\* symbol's most recent authorized trigger (none when there was none); stated
\* for the evaluations made while the mirror is connected.
C5_LastTriggerPriceIsLastTrigger ==
    (VolatilityChecked /\ connected) => lastEval.P = lastEval.trig

\* C6: past the cooldown, an evaluation that finds no last trigger price for
\* the symbol triggers.
C6_ColdStartTriggers ==
    (VolatilityChecked /\ lastEval.P = None) => (lastEval.result /\ lastEval.created = 1)

\* a symbol's cold start is the only reason to trigger: an invocation is on
\* record, no fallback is due and health is good
C6_Witness ==
    /\ VolatilityChecked /\ lastEval.P = None
    /\ last_ai_call_time # None /\ ~FallbackDue /\ ~HealthDegraded
    /\ lastEval.result

\* C7: an evaluation made FALLBACK_INTERVAL or more after the last recorded
\* invocation triggers.
C7_FallbackTriggers ==
    (Evaluated /\ last_ai_call_time # None
               /\ now - last_ai_call_time >= FALLBACK_INTERVAL) =>
        (lastEval.result /\ lastEval.created = 1)

\* exactly FALLBACK_INTERVAL after the invocation, the price not having moved:
\* the fallback check is the one that answers
C7_Witness ==
    /\ Evaluated
    /\ last_ai_call_time # None /\ now - last_ai_call_time = FALLBACK_INTERVAL
    /\ lastEval.checks = <<"min_interval", "volatility", "fallback">>
    /\ lastEval.result

\* C8: past the cooldown, with the volatility and fallback checks false and
\* the status lookup answered, the gate triggers iff health is degraded: the
\* mirror is disconnected or the transport status is not "connected".
StatusChecked == Evaluated /\ Len(lastEval.checks) = 4

C8_AnomalyIffDegraded ==
    (StatusChecked /\ (lastEval.redisOk => lastEval.wsRead)) =>
        (lastEval.result <=> HealthDegraded)

\* the mirror answers and holds a transport status other than "connected"
C8_Witness ==
    /\ StatusChecked
    /\ lastEval.redisOk /\ lastEval.wsRead
    /\ r_ws_status = "disconnected"
    /\ lastEval.result

\* C9: an evaluation creates one task when it authorizes and none otherwise;
\* a task's start records the invocation once (the time in memory and, with
\* the mirror connected, the mirror's time and one increment of its counter);
\* no other step records; and the created tasks do start: again and again
\* none is left waiting.
RecordsOnce ==
    /\ Len(readyQ') = Len(readyQ) - 1
    /\ last_ai_call_time' = now
    /\ connected => (r_last_ai_call' = now /\ r_ai_call_count' = r_ai_call_count + 1)

C9_RecordedOncePerAuthorization ==
    /\ [][/\ Len(readyQ') - Len(readyQ) = (IF lastEval'.result THEN 1
                                           ELSE IF TaskStarts THEN 0 - 1 ELSE 0)
          /\ TaskStarts => RecordsOnce
          /\ ~TaskStarts => UNCHANGED <<last_ai_call_time, r_last_ai_call,
                                        r_ai_call_count>>]_vars
    /\ []<>(readyQ = <<>>)

\* a task has started with the mirror connected and its invocation is on record
C9_Witness ==
    /\ connected
    /\ last_ai_call_time = now /\ r_last_ai_call = now
    /\ r_ai_call_count \in {1, MAX_AI_CALLS_PER_HOUR + 1}
    /\ \E s \in Symbols : running[s] > 0

\* C10: no two started decision tasks of one symbol are in the agent call
\* at the same time.
C10_OneTaskPerSymbol == \A s \in Symbols : running[s] <= 1

\* C11: the event handler only schedules the decision task (a step that
\* authorizes leaves the started tasks as they are and adds one created task),
\* and while a decision call is pending the handler still runs for every
\* symbol and every price.
DecisionPending == \E s \in Symbols : running[s] > 0

C11_IngestionNeverBlocks ==
    /\ [][lastEval'.result =>
            (running' = running /\ readyQ' = Append(readyQ, lastEval'.sym))]_vars
    /\ []((DecisionPending /\ InFlight < MaxTasks) =>
            \A symbol \in Symbols : \A price \in KlinePrices(symbol) :
                ENABLED OnKlineUpdate(symbol, price, NoDown, NoGlitch))

\* a price event has just been evaluated while a decision call is pending
C11_Witness == Evaluated /\ DecisionPending

\* C12: the return of a decision call (successful, unsuccessful or raising)
\* leaves the recorded invocation time and the invocation counter as the
\* task's start recorded them.
AgentCallReturns == \E s \in Symbols : running'[s] < running[s]

C12_FailedDecisionKeepsGateState ==
    [][AgentCallReturns =>
         UNCHANGED <<last_ai_call_time, r_last_ai_call, r_ai_call_count>>]_vars

\* a decision call has just returned, its invocation still on record in
\* memory and in the mirror
C12_Witness ==
    /\ lastEval.returned
    /\ connected
    /\ last_ai_call_time # None /\ r_last_ai_call = last_ai_call_time
    /\ r_ai_call_count \in {1, MAX_AI_CALLS_PER_HOUR + 1}

\* C13: a symbol's buffer never holds more than 100 messages.
C13_BufferAtMostCapacity ==
    \A s \in Symbols : Len(klines_cache[s]) <= BUFFER_CAPACITY

\* a full buffer has taken two more messages
C13_Witness ==
    /\ Len(arrived["BTCUSDT"]) = BUFFER_CAPACITY + 2
    /\ Len(klines_cache["BTCUSDT"]) = BUFFER_CAPACITY

\* C14: every message in a symbol's buffer is a closed bar.
C14_OnlyClosedBars ==
    \A s \in Symbols : \A k \in DOMAIN klines_cache[s] : klines_cache[s][k].x

\* C15: no two messages in a symbol's buffer have the same close time.
C15_NoDuplicateCloseTime ==
    \A s \in Symbols : \A j, k \in DOMAIN klines_cache[s] :
        klines_cache[s][j].T = klines_cache[s][k].T => j = k

\* the step just taken handled a kline message of symbol s; the message
Handled(s) == Len(arrived'[s]) = Len(arrived[s]) + 1

HandledMsg(s) == arrived'[s][Len(arrived'[s])]

\* C16: a closed bar whose close time equals or precedes that of a message
\* already in the symbol's buffer leaves the buffer unchanged.
C16_StaleBarDiscarded ==
    [][\A s \in Symbols :
         (/\ Handled(s)
          /\ HandledMsg(s).x
          /\ \E k \in DOMAIN klines_cache[s] : HandledMsg(s).T <= klines_cache[s][k].T)
         => klines_cache'[s] = klines_cache[s]]_vars

\* C17: a symbol's buffer is the last min(k, 100) of the k messages it has
\* taken (preloaded or handled), in the order they arrived.
C17_BufferIsFifo ==
    \A s \in Symbols : klines_cache[s] = LastN(arrived[s], BUFFER_CAPACITY)

\* the two oldest messages of a full buffer have been evicted and the newest
\* message is its tail
C17_Witness ==
    /\ Len(arrived["BTCUSDT"]) = BUFFER_CAPACITY + 2
    /\ klines_cache["BTCUSDT"][1] = arrived["BTCUSDT"][3]
    /\ klines_cache["BTCUSDT"][BUFFER_CAPACITY] = arrived["BTCUSDT"][BUFFER_CAPACITY + 2]

\* C18: the tail of a symbol's buffer is a closed bar, and no closed bar the
\* buffer has taken closes later than it.
C18_TailIsLatestClosed ==
    \A s \in Symbols :
        klines_cache[s] # <<>> =>
            LET tail == klines_cache[s][Len(klines_cache[s])]
            IN  /\ tail.x
                /\ \A k \in DOMAIN arrived[s] :
                       arrived[s][k].x => arrived[s][k].T <= tail.T

\* C19: the published set holds the eight values and no sufficiency flag, so
\* that a value can mark sufficiency only by not being the sentinel: an
\* indicator computed over a buffer of its minimum length or more differs from
\* its sentinel (50.0 for RSI, 0.0 for the others).
Published(s) == r_indicators[s] # NoIndicators

PublishedOverBuffer(s) ==
    Published(s) /\ r_indicators[s] = IndicatorSet(klines_cache[s])

C19_SentinelTellsInsufficient ==
    \A s \in Symbols :
        PublishedOverBuffer(s) =>
            LET n == Len(klines_cache[s])
                I == r_indicators[s]
            IN  /\ n >= 8  => I.rsi_7 # <<50, 1>>
                /\ n >= 15 => I.rsi_14 # <<50, 1>>
                /\ n >= 20 => I.ema_20 # 0
                /\ n >= 50 => I.ema_50 # 0
                /\ n >= 15 => I.atr_14 # <<0, 1>>
                /\ n >= 35 => ~(I.macd_line = 0 /\ I.macd_signal = 0
                                               /\ I.macd_histogram = 0)

\* C20: with the mirror connected, the handling of a closed bar leaves the
\* symbol's published set equal to the set computed over the buffer as it is
\* after the bar.
C20_RecomputedOnEveryClose ==
    [][\A s \in Symbols :
         (Handled(s) /\ HandledMsg(s).x /\ connected)
         => r_indicators'[s] = IndicatorSet(klines_cache'[s])]_vars

\* C23: when the health lookup of the anomaly check fails (the mirror does not
\* answer, or the read of the status raises), the evaluation still ends and
\* answers trigger.
HealthLookupFailed == ~lastEval.redisOk \/ ~lastEval.wsRead

C23_FailedLookupTriggers ==
    (StatusChecked /\ HealthLookupFailed) => lastEval.result

\* C24: after an error message of a stream, and until the stream's connection
\* is open again, an evaluation that gets to the health check with the mirror
\* answering finds the degradation and triggers.
C24_StreamErrorSeenByGate ==
    (StatusChecked /\ stream_closed /\ lastEval.redisOk /\ lastEval.wsRead) =>
        lastEval.result

\* what the program holds for one symbol: the gate's price history and last
\* triggered price, the engine's last price and buffer, the mirror's hashes
SymbolState(s) ==
    <<price_history[s], r_price_alert[s], lastTriggerPrice[s], last_prices[s],
      klines_cache[s], arrived[s], r_indicators[s], r_market_data[s]>>

\* C26: a kline or ticker event of one symbol leaves what the program holds
\* for every other symbol as it was: no step changes the state of two
\* symbols, and a step that evaluates the gate for a symbol changes no other
\* symbol's state.
C26_SymbolsIndependent ==
    [][\A A \in Symbols : \A B \in Symbols \ {A} :
          /\ SymbolState(A)' = SymbolState(A) \/ SymbolState(B)' = SymbolState(B)
          /\ lastEval'.sym = A => SymbolState(B)' = SymbolState(B)]_vars

\* an event of BTCUSDT has just triggered at 1002 and entered that symbol's
\* price history, while ETHUSDT has a last price, a price history and a last
\* triggered price of its own
C26_Witness ==
    /\ VolatilityChecked /\ lastEval.sym = "BTCUSDT" /\ lastEval.result
    /\ last_prices["BTCUSDT"] = 1002 /\ price_history["BTCUSDT"] = 1002
    /\ last_prices["ETHUSDT"] = 1000
    /\ price_history["ETHUSDT"] = 1000
    /\ lastTriggerPrice["ETHUSDT"] = 1000

\* C30: an error message changes no buffer, last price, indicator or mirrored
\* value, invokes no callback and evaluates nothing; after it every kline
\* message is still handled, and the buffers hold the messages handled,
\* whether or not error messages came in between.
C30_ErrorMessageIgnored ==
    /\ [][ws_errors' > ws_errors =>
             /\ UNCHANGED <<klines_cache, arrived, last_prices, r_indicators,
                            r_market_data, n_callbacks>>
             /\ UNCHANGED <<price_history, r_price_alert, last_ai_call_time,
                            readyQ, running, connected>>
             /\ lastEval' = NoEval]_vars
    /\ []((ws_errors > 0 /\ nEvents < MaxEngineEvents /\ InFlight < MaxTasks
               /\ mainPc \in {"starting", "running"}) =>
             \A symbol \in Symbols :
                \A msg \in EngineKlineMsgs(symbol, streamT[symbol]) :
                   ENABLED KlineEvent(symbol, msg, NoDown, NoGlitch))
    /\ [](\A s \in Symbols : klines_cache[s] = LastN(arrived[s], BUFFER_CAPACITY))

\* an error message has come in, and the closed bar that came after it has
\* been buffered, published and evaluated
C30_Witness ==
    /\ ws_errors = 1 /\ nEvents = 2
    /\ Evaluated /\ lastEval.sym = "BTCUSDT"
    /\ Len(klines_cache["BTCUSDT"]) = EnginePreloadLen + 1
    /\ klines_cache["BTCUSDT"][EnginePreloadLen + 1].x
    /\ last_prices["BTCUSDT"] = lastEval.price
    /\ n_callbacks = 1

\* C25: an evaluation that finds a price in the symbol's in-memory history
\* uses that price as the last trigger price, whatever the mirror holds.
C25_MemoryIsAuthoritative ==
    [][(VolatilityChecked' /\ price_history[lastEval'.sym] # None) =>
          lastEval'.P = price_history[lastEval'.sym]]_vars

\* ------------------------------------------ claims: the indicator functions
\* the function whose return the state holds, and its arguments
Returned(fn) == calc_result.called /\ calc_result.fn = fn

CalcPrices == ClosePrices(calc_klines)

\* gains and losses of the last calc_period deltas of the prices
LastGains ==
    SumGains(CalcPrices, Len(CalcPrices) - calc_period + 1, Len(CalcPrices))

LastLosses ==
    SumLosses(CalcPrices, Len(CalcPrices) - calc_period + 1, Len(CalcPrices))

\* C21: whatever the prices and the period, the RSI calculate_rsi returns
\* lies in [0, 100].
C21_RsiInRange ==
    Returned("calculate_rsi") =>
        /\ calc_result.value[2] > 0
        /\ calc_result.value[1] >= 0
        /\ calc_result.value[1] <= 100 * calc_result.value[2]

\* an RSI above 50 and below 100, computed from more gains than losses
C21_Witness ==
    /\ Returned("calculate_rsi")
    /\ Len(CalcPrices) >= calc_period + 1
    /\ LastGains > LastLosses /\ LastLosses > 0
    /\ calc_result.value[1] > 50 * calc_result.value[2]
    /\ calc_result.value[1] < 100 * calc_result.value[2]

\* the true range of the k-th kline: the greatest of high - low,
\* |high - previous close| and |low - previous close|
TrueRange(klines, k) ==
    LET candidates == { klines[k].h - klines[k].l,
                        Abs(klines[k].h - klines[k - 1].c),
                        Abs(klines[k].l - klines[k - 1].c) }
    IN  CHOOSE m \in candidates : \A c \in candidates : m >= c

RECURSIVE SumOfLastTrueRanges(_, _)
SumOfLastTrueRanges(klines, p) ==
    IF p = 0 THEN 0
    ELSE TrueRange(klines, Len(klines)) +
         SumOfLastTrueRanges(SubSeq(klines, 1, Len(klines) - 1), p - 1)

\* C22: the ATR calculate_atr returns is never negative, also for bars whose
\* high is below their low, and from period + 1 bars on it is the mean of the
\* last period true ranges.
C22_AtrIsMeanTrueRange ==
    Returned("calculate_atr") =>
        /\ calc_result.value[2] > 0
        /\ calc_result.value[1] >= 0
        /\ Len(calc_klines) >= calc_period + 1 =>
               calc_result.value[1] * calc_period =
                   SumOfLastTrueRanges(calc_klines, calc_period) * calc_result.value[2]

\* an ATR over bars the last of which has its high below its low
C22_Witness ==
    /\ Returned("calculate_atr")
    /\ Len(calc_klines) >= calc_period + 1
    /\ calc_klines[Len(calc_klines)].h < calc_klines[Len(calc_klines)].l
    /\ calc_result.value[1] > 0

\* the least and the greatest of the prices handed over
LeastPrice == CHOOSE m \in {CalcPrices[k] : k \in 1..Len(CalcPrices)} :
                  \A k \in 1..Len(CalcPrices) : m <= CalcPrices[k]

GreatestPrice == CHOOSE m \in {CalcPrices[k] : k \in 1..Len(CalcPrices)} :
                     \A k \in 1..Len(CalcPrices) : m >= CalcPrices[k]

\* the value is 100 - 100 / (1 + avgGain / avgLoss) = 100 * gains / (gains + losses)
\* over the last calc_period deltas, 100 when they hold no loss
RsiComputed(value) ==
    IF LastLosses = 0 THEN value = <<100, 1>>
    ELSE value[1] * (LastGains + LastLosses) = 100 * LastGains * value[2]

C29_RsiHundredWithoutLoss ==
    (Returned("calculate_rsi") /\ Len(CalcPrices) >= calc_period + 1) =>
        RsiComputed(calc_result.value)

\* the RSI of a flat series: neither gain nor loss, and 100
C29_Witness ==
    /\ Returned("calculate_rsi")
    /\ Len(CalcPrices) >= calc_period + 1
    /\ LastGains = 0 /\ LastLosses = 0
    /\ calc_result.value = <<100, 1>>

\* ------------------------------------------------- claims: get_klines_data
\* C27: whatever the caller does to the list get_klines_data returned (adding,
\* removing or replacing bars, changing a field of a returned bar), the
\* engine's buffers hold afterwards what they held before.
C27_SnapshotIsolated ==
    [][nCallerOps' > nCallerOps => klines_cache' = klines_cache]_vars

\* ------------------------------------------------ claims: the coordinator
\* the step just taken started the process again
ProcessRestarted == restarts' > restarts

\* C31: when the store answered the old process and answers the new one, the
\* gate of the new process starts with the last_ai_call_time the old process
\* had, and an evaluation of a started-again process made less than
\* MIN_CALL_INTERVAL after the invocation the store has on record is refused.
C31_GateStateSurvivesRestart ==
    /\ [][ProcessRestarted /\ connected /\ connected'
            => last_ai_call_time' = last_ai_call_time]_vars
    /\ []((restarts > 0 /\ Evaluated /\ connected /\ r_last_ai_call # None
             /\ now - r_last_ai_call < MIN_CALL_INTERVAL)
            => (~lastEval.result /\ lastEval.checks = <<"min_interval">>))

\* an invocation of the old process is on record (the time of a task's start
\* in this run of the model), the new process has made no decision, and its
\* evaluation was refused by the cooldown
C31_Witness ==
    /\ restarts > 0 /\ connected
    /\ ai_decisions_made = 0
    /\ r_last_ai_call # None /\ r_last_ai_call >= StartTime
    /\ last_ai_call_time = r_last_ai_call
    /\ Evaluated /\ ~lastEval.result /\ lastEval.checks = <<"min_interval">>

\* the step just taken recorded an invocation or counted a decision
InvocationRecorded ==
    \/ ai_decisions_made' > ai_decisions_made
    \/ r_last_ai_call' # r_last_ai_call
    \/ r_ai_call_count' # r_ai_call_count
    \/ (last_ai_call_time' # last_ai_call_time /\ ~ProcessRestarted)

C38_IdleOnlyWithoutTaskInFlight ==
    ai_agent_status = "idle" => Total(running, Symbols) = 0

\* ------------------------------------------------ claims: what is evaluated
\* the step just taken handled a closed kline message
ClosedBarHandled ==
    \E s \in Symbols :
        /\ Len(arrived'[s]) = Len(arrived[s]) + 1
        /\ arrived'[s][Len(arrived'[s])].x

\* C33: a step in which the gate is evaluated, or a decision task is created,
\* is the handling of a closed kline message.
C33_EvaluatedOnClosedBarsOnly ==
    [][(lastEval'.sym # "" \/ Len(readyQ') > Len(readyQ)) => ClosedBarHandled]_vars

\* C34: the bars of a symbol's buffer are bars of one candle interval.
C34_OneIntervalPerBuffer ==
    \A s \in Symbols :
        \A j, k \in 1..Len(klines_cache[s]) :
            klines_cache[s][j].i = klines_cache[s][k].i

\* the step just taken handled, for symbol s, a closed message whose close
\* price is not a number
MalformedHandled(s) ==
    /\ Len(arrived'[s]) = Len(arrived[s]) + 1
    /\ arrived'[s][Len(arrived'[s])].x
    /\ arrived'[s][Len(arrived'[s])].c = NotNumeric

\* C36: the handling of a message that fails partway leaves the symbol's
\* buffer as it was.
C36_FailedMessageLeavesBuffer ==
    [][\A s \in Symbols : MalformedHandled(s) => klines_cache'[s] = klines_cache[s]]_vars

\* C35: an evaluation made while last_ai_call_time is unset answers trigger,
\* whatever the symbol, the price and the state of the mirror.
C35_UnsetTimestampTriggers ==
    (Evaluated /\ last_ai_call_time = None) => lastEval.result

\* without a recorded invocation the gate read a last trigger price, saw no
\* move of the threshold's size and triggered by the fallback check
C35_Witness ==
    /\ Evaluated /\ last_ai_call_time = None
    /\ lastEval.P # None
    /\ ~price_change_reached(lastEval.price, lastEval.P)
    /\ lastEval.checks = <<"min_interval", "volatility", "fallback">>
    /\ lastEval.result

\* ----------------------------------------------- claims: the hourly counter
\* C37: between the calls of increment_ai_call_count, a counter key that
\* exists carries an expiry.
C37_CounterKeyExpires ==
    (incPc = "idle" /\ r_ai_call_count > 0) => r_count_expires

\* ------------------------------------------ claims: what get_klines_data gives
\* the step just taken was a call of get_klines_data
KlinesDataCalled == nCallerOps' = nCallerOps /\ returned' # returned

\* C39: for a symbol with a buffer get_klines_data(symbol, limit) returns at
\* most limit bars, the limit latest of the buffer in the buffer's order, and
\* for a symbol without a buffer it returns None.
C39_ReturnsTheLatestLimitBars ==
    [][KlinesDataCalled =>
         IF returned'.symbol \in Symbols
         THEN /\ returned'.held
              /\ Len(returned'.refs) <= returned'.limit
              /\ returned'.refs = LastN(cache_refs[returned'.symbol], returned'.limit)
         ELSE ~returned'.held]_vars

====
